---- MODULE Spec2Model ----
(***************************************************************************)
(* Construction-project monitoring tool: the REST API (backend/app.py) and *)
(* the repository functions of the dashboard (frontend/app.py), both on    *)
(* the relational store declared in frontend/app.py.  Every request        *)
(* handler is one action; the SQL statements it issues are evaluated by    *)
(* the operators SqlInsert, SqlUpdate and SqlDelete against the declared   *)
(* schema (types, NOT NULL, UNIQUE, foreign keys and their delete rules).  *)
(***************************************************************************)
EXTENDS Integers, Sequences, FiniteSets, TLC

VARIABLES
    db,     \* the store: table name -> set of rows (row: column -> value)
    db0,    \* the store as it was when the last request arrived
    now,    \* number of requests served; the store's clock
    last,   \* the last request and the response the caller received
    session, \* the dashboard's st.session_state and the page the script rendered
    url,    \* whether DATABASE_URL is set
    conn,   \* connection -> whether it is open, and the state of its transaction
    pend,   \* the uncommitted writes: the connection that made them, its store
    proc    \* thread -> the operation it runs, how far it is, and its result

txvars == <<url, conn, pend, proc>>
vars == <<db, db0, now, last, session, txvars>>

(***************************************************************************)
(* Values.  Every value is a string: NULL is Python's None / SQL NULL,     *)
(* EMPTY the empty string, ZERO the JSON number 0.                         *)
(***************************************************************************)
NULL == "NULL"
EMPTY == ""
ZERO == "0"

\* Well-formed UUIDs the store can generate, and a string that is no UUID.
IdPool == {"id1", "id2", "id3"}
BadId == "not-a-uuid"
DateVals == {"2024-01-01", "2024-02-01"}
NumVals == {ZERO, "7"}

\* Python truthiness of a request value: `not v`.
Falsy(v) == v \in {NULL, EMPTY, ZERO}

(***************************************************************************)
(* The schema (CREATE TABLE statements).                                   *)
(***************************************************************************)
Schema == [
    users |-> {"id", "email", "password_hash", "name", "role", "created_at"},
    suppliers |-> {"id", "name", "cnpj_cpf", "contact", "address", "notes",
                   "delivery_time", "payment_terms", "created_at"},
    cost_categories |-> {"id", "name", "description", "created_at"},
    units_of_measure |-> {"id", "name", "created_at"},
    clients |-> {"id", "name", "contact", "cnpj", "address", "notes", "created_at"},
    team_members |-> {"id", "name", "role", "email", "phone", "cpf", "hiring_date",
                      "access_level", "notes", "created_at"},
    projects |-> {"id", "name", "client_id", "address", "start_date", "end_date",
                  "status", "budget", "created_at"},
    project_services |-> {"id", "project_id", "name", "duration", "start_date",
                          "end_date", "progress", "cost", "unit", "measure",
                          "created_at"},
    project_documents |-> {"id", "project_id", "name", "type", "file_url", "size_kb",
                           "upload_date", "uploaded_by", "notes", "created_at"},
    document_versions |-> {"id", "document_id", "version_number", "file_url",
                           "upload_date", "uploaded_by", "notes", "created_at"},
    daily_logs |-> {"id", "project_id", "log_date", "weather", "personnel", "notes",
                    "materials_received", "equipment_used", "occurrences",
                    "location_lat", "location_lon", "created_at"},
    daily_log_activities |-> {"id", "daily_log_id", "step_name", "activity_type",
                              "quantity", "unit", "observations", "created_at"},
    daily_log_costs |-> {"id", "daily_log_id", "description", "value", "category",
                         "associated_step", "created_at"},
    daily_log_photos |-> {"id", "daily_log_id", "photo_url", "description",
                          "upload_date", "uploaded_by", "created_at"},
    project_team_members |-> {"project_id", "team_member_id", "assigned_at"} ]

Tables == DOMAIN Schema

\* Columns declared NOT NULL (a PRIMARY KEY column is NOT NULL).
NotNull == [
    users |-> {"id", "email", "password_hash"},
    suppliers |-> {"id", "name", "contact"},
    cost_categories |-> {"id", "name"},
    units_of_measure |-> {"id", "name"},
    clients |-> {"id", "name"},
    team_members |-> {"id", "name", "email"},
    projects |-> {"id", "name", "client_id", "address", "start_date", "end_date",
                  "status", "budget"},
    project_services |-> {"id", "project_id", "name", "start_date", "end_date", "cost"},
    project_documents |-> {"id", "project_id", "name"},
    document_versions |-> {"id", "document_id", "version_number"},
    daily_logs |-> {"id", "project_id", "log_date"},
    daily_log_activities |-> {"id", "daily_log_id"},
    daily_log_costs |-> {"id", "daily_log_id", "description", "value"},
    daily_log_photos |-> {"id", "daily_log_id", "photo_url"},
    project_team_members |-> {"project_id", "team_member_id"} ]

\* The constraints without UNIQUE on users.email.
UniqueKeys_EmailNotUnique == [
    users |-> {{"id"}},
    suppliers |-> {{"id"}},
    cost_categories |-> {{"id"}, {"name"}},
    units_of_measure |-> {{"id"}, {"name"}},
    clients |-> {{"id"}},
    team_members |-> {{"id"}, {"email"}},
    projects |-> {{"id"}},
    project_services |-> {{"id"}},
    project_documents |-> {{"id"}},
    document_versions |-> {{"id"}},
    daily_logs |-> {{"id"}},
    daily_log_activities |-> {{"id"}},
    daily_log_costs |-> {{"id"}},
    daily_log_photos |-> {{"id"}},
    project_team_members |-> {{"project_id", "team_member_id"}} ]

\* PRIMARY KEY and UNIQUE constraints: each a set of columns.
UniqueKeys == [
    users |-> {{"id"}, {"email"}},
    suppliers |-> {{"id"}},
    cost_categories |-> {{"id"}, {"name"}},
    units_of_measure |-> {{"id"}, {"name"}},
    clients |-> {{"id"}},
    team_members |-> {{"id"}, {"email"}},
    projects |-> {{"id"}},
    project_services |-> {{"id"}},
    project_documents |-> {{"id"}},
    document_versions |-> {{"id"}},
    daily_logs |-> {{"id"}},
    daily_log_activities |-> {{"id"}},
    daily_log_costs |-> {{"id"}},
    daily_log_photos |-> {{"id"}},
    project_team_members |-> {{"project_id", "team_member_id"}} ]

\* FOREIGN KEY constraints with their ON DELETE rule.
ForeignKeys == {
    [tbl |-> "projects", col |-> "client_id", ref |-> "clients", rule |-> "RESTRICT"],
    [tbl |-> "project_services", col |-> "project_id", ref |-> "projects", rule |-> "CASCADE"],
    [tbl |-> "project_documents", col |-> "project_id", ref |-> "projects", rule |-> "CASCADE"],
    [tbl |-> "project_documents", col |-> "uploaded_by", ref |-> "team_members", rule |-> "SET NULL"],
    [tbl |-> "document_versions", col |-> "document_id", ref |-> "project_documents", rule |-> "CASCADE"],
    [tbl |-> "document_versions", col |-> "uploaded_by", ref |-> "team_members", rule |-> "SET NULL"],
    [tbl |-> "daily_logs", col |-> "project_id", ref |-> "projects", rule |-> "CASCADE"],
    [tbl |-> "daily_log_activities", col |-> "daily_log_id", ref |-> "daily_logs", rule |-> "CASCADE"],
    [tbl |-> "daily_log_costs", col |-> "daily_log_id", ref |-> "daily_logs", rule |-> "CASCADE"],
    [tbl |-> "daily_log_photos", col |-> "daily_log_id", ref |-> "daily_logs", rule |-> "CASCADE"],
    [tbl |-> "daily_log_photos", col |-> "uploaded_by", ref |-> "team_members", rule |-> "SET NULL"],
    [tbl |-> "project_team_members", col |-> "project_id", ref |-> "projects", rule |-> "CASCADE"],
    [tbl |-> "project_team_members", col |-> "team_member_id", ref |-> "team_members", rule |-> "CASCADE"] }

\* Column types that reject some strings: UUID, DATE, NUMERIC/INT.  The other
\* columns are VARCHAR/TEXT (created_at/assigned_at are set by the store).
UuidCols == {"id", "client_id", "project_id", "document_id", "daily_log_id",
             "team_member_id", "uploaded_by"}
DateCols == {"hiring_date", "start_date", "end_date", "upload_date", "log_date"}
NumCols == {"budget", "progress", "cost", "measure", "size_kb", "version_number",
            "location_lat", "location_lon", "quantity", "value"}
TsCols == {"created_at", "assigned_at"}

\* CURRENT_TIMESTAMP at clock value n.
Ts(n) == "ts" \o ToString(n)
TsVals == {Ts(n) : n \in 0..9}

\* Does the store accept literal v for column c (input syntax of its type)?
Accepts(c, v) ==
    \/ v = NULL
    \/ c \in UuidCols /\ v \in IdPool
    \/ c \in DateCols /\ v \in DateVals
    \/ c \in NumCols /\ v \in NumVals
    \/ c \in TsCols /\ v \in TsVals
    \/ c \notin (UuidCols \cup DateCols \cup NumCols \cup TsCols)

(***************************************************************************)
(* The store's evaluation of one statement.  A statement either raises     *)
(* (err is the psycopg2 exception class) and changes nothing, or yields    *)
(* the store with the statement applied.                                   *)
(***************************************************************************)
NoErr == "none"

\* Column defaults of the schema, used for a column an INSERT does not list.
ColumnDefault(t, c, newid, n) ==
    IF c = "id" THEN newid
    ELSE IF c \in TsCols THEN Ts(n)
    ELSE IF t = "projects" /\ c = "status" THEN "Em Planejamento"
    ELSE IF t = "project_services" /\ c = "progress" THEN ZERO
    ELSE IF c = "upload_date" THEN "2024-01-01"
    ELSE NULL

\* r clashes with a row of rows on a PRIMARY KEY / UNIQUE constraint of t.
UniqueClash(t, r, rows) ==
    \E k \in UniqueKeys[t] : \E o \in rows :
        \A c \in k : r[c] # NULL /\ r[c] = o[c]

\* Foreign keys that are not enforced when a row is written.
ParentsExist_Unchecked(d, t, r) == TRUE

\* Every foreign key of row r of table t points at an existing row of d.
ParentsExist(d, t, r) ==
    \A fk \in ForeignKeys :
        fk.tbl = t => (r[fk.col] = NULL \/ \E p \in d[fk.ref] : p.id = r[fk.col])

\* Some row of d references (t, id) through a foreign key.
Referenced(d, t, id) ==
    \E fk \in ForeignKeys : fk.ref = t /\ \E ch \in d[fk.tbl] : ch[fk.col] = id

\* INSERT INTO t (DOMAIN vals) VALUES (vals) RETURNING id
SqlInsert(d, t, vals, newid, n) ==
    LET row == [c \in Schema[t] |->
                   IF c \in DOMAIN vals THEN vals[c] ELSE ColumnDefault(t, c, newid, n)]
        err == IF \E c \in DOMAIN vals : ~Accepts(c, vals[c])
                   THEN "InvalidTextRepresentation"
               ELSE IF \E c \in NotNull[t] : row[c] = NULL THEN "NotNullViolation"
               ELSE IF UniqueClash(t, row, d[t]) THEN "UniqueViolation"
               ELSE IF ~ParentsExist(d, t, row) THEN "ForeignKeyViolation"
               ELSE NoErr
    IN  [err |-> err,
         db |-> IF err = NoErr THEN [d EXCEPT ![t] = @ \cup {row}] ELSE d,
         returned |-> IF err = NoErr /\ "id" \in Schema[t] THEN row.id ELSE NULL,
         rowcount |-> IF err = NoErr THEN 1 ELSE 0]

\* UPDATE t SET <clauses> WHERE id = id RETURNING id
\* clauses: request key -> [col, val], one "col = %s" per key of the request.
SqlUpdate(d, t, id, clauses) ==
    LET keys == DOMAIN clauses
        hit == {r \in d[t] : r.id = id}
        new(old) == [c \in Schema[t] |->
                       IF \E k \in keys : clauses[k].col = c
                       THEN clauses[CHOOSE k \in keys : clauses[k].col = c].val
                       ELSE old[c]]
        parse == IF \E k \in keys : clauses[k].col \notin Schema[t] THEN "UndefinedColumn"
                 ELSE IF \E k1, k2 \in keys : k1 # k2 /\ clauses[k1].col = clauses[k2].col
                     THEN "SyntaxError"
                 ELSE IF ~Accepts("id", id)
                         \/ \E k \in keys : ~Accepts(clauses[k].col, clauses[k].val)
                     THEN "InvalidTextRepresentation"
                 ELSE NoErr
        exec(old) == IF \E c \in NotNull[t] : new(old)[c] = NULL THEN "NotNullViolation"
                     ELSE IF UniqueClash(t, new(old), d[t] \ {old}) THEN "UniqueViolation"
                     ELSE IF ~ParentsExist(d, t, new(old)) THEN "ForeignKeyViolation"
                     ELSE IF new(old).id # old.id /\ Referenced(d, t, old.id)
                         THEN "ForeignKeyViolation"
                     ELSE NoErr
        err == IF parse # NoErr THEN parse
               ELSE IF hit = {} THEN NoErr
               ELSE exec(CHOOSE r \in hit : TRUE)
    IN  IF err # NoErr \/ hit = {}
        THEN [err |-> err, db |-> d, returned |-> NULL, rowcount |-> 0]
        ELSE LET old == CHOOSE r \in hit : TRUE
             IN  [err |-> NoErr,
                  db |-> [d EXCEPT ![t] = (@ \ {old}) \cup {new(old)}],
                  returned |-> new(old).id,
                  rowcount |-> 1]

\* One round of ON DELETE CASCADE: S with the rows that cascade from S.
CascadeStep(d, S) ==
    S \cup UNION { { <<fk.tbl, ch>> :
                       ch \in { c \in d[fk.tbl] :
                                  \E p \in S : p[1] = fk.ref /\ c[fk.col] = p[2].id } } :
                   fk \in { f \in ForeignKeys : f.rule = "CASCADE" } }

\* The cascade stopping at the direct dependents.
CascadeClosure_OneLevel(d, S) == CascadeStep(d, S)

RECURSIVE CascadeClosure(_, _)
CascadeClosure(d, S) ==
    LET S2 == CascadeStep(d, S) IN IF S2 = S THEN S ELSE CascadeClosure(d, S2)

\* ON DELETE SET NULL that leaves the reference in place.
SetNull_Keep(t, r, S) == r

\* Row r of table t after ON DELETE SET NULL for the deleted rows S.
SetNull(t, r, S) ==
    [c \in Schema[t] |->
        IF \E fk \in ForeignKeys :
               /\ fk.tbl = t /\ fk.col = c /\ fk.rule = "SET NULL"
               /\ \E p \in S : p[1] = fk.ref /\ p[2].id = r[c]
        THEN NULL ELSE r[c]]

\* The store d without the rows S and their cascade, or the RESTRICT error.
DeleteRows(d, S0) ==
    LET S == CascadeClosure(d, S0)
        restricted == \E fk \in ForeignKeys :
                        /\ fk.rule = "RESTRICT"
                        /\ \E ch \in d[fk.tbl] :
                             /\ <<fk.tbl, ch>> \notin S
                             /\ \E p \in S : p[1] = fk.ref /\ p[2].id = ch[fk.col]
    IN  IF restricted
        THEN [err |-> "ForeignKeyViolation", db |-> d]
        ELSE [err |-> NoErr,
              db |-> [t \in Tables |->
                        { SetNull(t, r, S) : r \in { x \in d[t] : <<t, x>> \notin S } }]]

\* DELETE FROM t WHERE id = id RETURNING id
SqlDelete(d, t, id) ==
    LET hit == {r \in d[t] : r.id = id}
        res == DeleteRows(d, { <<t, r>> : r \in hit })
    IN  IF ~Accepts("id", id)
        THEN [err |-> "InvalidTextRepresentation", db |-> d, returned |-> NULL, rowcount |-> 0]
        ELSE IF hit = {}
        THEN [err |-> NoErr, db |-> d, returned |-> NULL, rowcount |-> 0]
        ELSE [err |-> res.err, db |-> res.db,
              returned |-> IF res.err = NoErr THEN id ELSE NULL,
              rowcount |-> IF res.err = NoErr THEN 1 ELSE 0]

\* DELETE FROM project_team_members WHERE project_id = pid AND team_member_id = mid
SqlDeletePair(d, pid, mid) ==
    LET hit == {r \in d["project_team_members"] :
                   r.project_id = pid /\ r.team_member_id = mid}
        res == DeleteRows(d, { <<"project_team_members", r>> : r \in hit })
    IN  IF ~Accepts("project_id", pid) \/ ~Accepts("team_member_id", mid)
        THEN [err |-> "InvalidTextRepresentation", db |-> d, rowcount |-> 0]
        ELSE [err |-> res.err, db |-> res.db, rowcount |-> Cardinality(hit)]

(***************************************************************************)
(* SELECT statements.                                                      *)
(***************************************************************************)
\* The sort position of a value within its column type; NULL sorts as larger
\* than every value (NULLS LAST ascending, NULLS FIRST descending).
Rank(v) ==
    CASE v = NULL -> 99
      [] v = EMPTY -> 0
      [] v = ZERO -> 0
      [] v = "7" -> 7
      [] v = "2024-01-01" -> 1
      [] v = "2024-02-01" -> 2
      [] v = "a" -> 11
      [] v = "b" -> 12
      [] v = "c" -> 13
      [] v = BadId -> 14
      [] v = "x" -> 15
      [] v \in TsVals -> CHOOSE n \in 0..9 : v = Ts(n)
      [] OTHER -> 50

\* The ORDER BY clause of the list statement of table t; the unfiltered
\* statement of document_versions has a clause of its own.
OrderBy(t, filtered) ==
    CASE t = "document_versions" ->
             IF filtered THEN [col |-> "version_number", dir |-> "DESC"]
             ELSE [col |-> "created_at", dir |-> "DESC"]
      [] t = "daily_logs" -> [col |-> "log_date", dir |-> "DESC"]
      [] t \in {"daily_log_activities", "daily_log_costs"} ->
             [col |-> "created_at", dir |-> "DESC"]
      [] t = "daily_log_photos" -> [col |-> "upload_date", dir |-> "DESC"]
      [] t = "project_team_members" -> [col |-> "none", dir |-> "none"]
      [] OTHER -> [col |-> "name", dir |-> "ASC"]

\* seq is in the order the clause ord asks for.
Ordered(seq, ord) ==
    \A i, j \in 1..Len(seq) :
        i < j => CASE ord.dir = "ASC" -> Rank(seq[i][ord.col]) <= Rank(seq[j][ord.col])
                   [] ord.dir = "DESC" -> Rank(seq[i][ord.col]) >= Rank(seq[j][ord.col])
                   [] OTHER -> TRUE

\* Every sequence the store may return for the rows S under clause ord: rows
\* that compare equal, or a statement without ORDER BY, come in any order.
Orderings(S, ord) ==
    { seq \in [1..Cardinality(S) -> S] :
        /\ \A i, j \in 1..Cardinality(S) : i # j => seq[i] # seq[j]
        /\ Ordered(seq, ord) }

\* The join on the client's name instead of its identifier.
JoinClient_OnName(d, S) ==
    { [c \in Schema["projects"] \cup {"client_name"} |->
          IF c = "client_name" THEN (CHOOSE cl \in d["clients"] : cl.name = r.client_id).name
          ELSE r[c]] :
      r \in { x \in S : \E cl \in d["clients"] : cl.name = x.client_id } }

\* p.*, c.name AS client_name FROM projects p JOIN clients c ON p.client_id = c.id
JoinClient(d, S) ==
    { [c \in Schema["projects"] \cup {"client_name"} |->
          IF c = "client_name" THEN (CHOOSE cl \in d["clients"] : cl.id = r.client_id).name
          ELSE r[c]] :
      r \in { x \in S : \E cl \in d["clients"] : cl.id = x.client_id } }

\* SELECT * FROM t [WHERE col = val AND ...] [ORDER BY ...]; where: col -> val.
SqlSelect(d, t, where) ==
    LET hit == { r \in d[t] : \A c \in DOMAIN where : r[c] = where[c] }
        rows == IF t = "projects" THEN JoinClient(d, hit) ELSE hit
    IN  IF \E c \in DOMAIN where : ~Accepts(c, where[c])
        THEN [err |-> "InvalidTextRepresentation", results |-> {<<>>}]
        ELSE [err |-> NoErr,
              results |-> Orderings(rows, OrderBy(t, DOMAIN where # {}))]

\* bcrypt: the hash embeds its salt; checking recomputes it with that salt.
Salts == {"s1", "s2"}
hashpw(password, salt) == "$2b$" \o salt \o "$" \o password
checkpw(password, hashed) == \E salt \in Salts : hashed = hashpw(password, salt)

\* SELECT ... FROM users WHERE email = email; fetchone()
SelectUser(d, email) == {u \in d["users"] : u.email = email}

\* The columns each INSERT statement of the code lists.
InsertCols == [
    users |-> {"email", "password_hash", "name", "role"},
    suppliers |-> {"name", "cnpj_cpf", "contact", "address", "notes", "delivery_time",
                   "payment_terms"},
    cost_categories |-> {"name", "description"},
    units_of_measure |-> {"name"},
    clients |-> {"name", "contact", "cnpj", "address", "notes"},
    team_members |-> {"name", "role", "email", "phone", "cpf", "hiring_date",
                      "access_level", "notes"},
    projects |-> {"name", "client_id", "address", "start_date", "end_date", "status",
                  "budget"},
    project_services |-> {"project_id", "name", "duration", "start_date", "end_date",
                          "progress", "cost", "unit", "measure"},
    project_documents |-> {"project_id", "name", "type", "file_url", "size_kb",
                           "upload_date", "uploaded_by", "notes"},
    document_versions |-> {"document_id", "version_number", "file_url", "upload_date",
                           "uploaded_by", "notes"},
    daily_logs |-> {"project_id", "log_date", "weather", "personnel", "notes",
                    "materials_received", "equipment_used", "occurrences",
                    "location_lat", "location_lon"},
    daily_log_activities |-> {"daily_log_id", "step_name", "activity_type", "quantity",
                              "unit", "observations"},
    daily_log_costs |-> {"daily_log_id", "description", "value", "category",
                         "associated_step"},
    daily_log_photos |-> {"daily_log_id", "photo_url", "description", "upload_date",
                          "uploaded_by"},
    project_team_members |-> {"project_id", "team_member_id"} ]

(***************************************************************************)
(* Requests and responses.                                                 *)
(***************************************************************************)
MaxOps == 1

\* A run follows one client: its requests go to one table through one layer.
SameClient(layer, t) ==
    last.layer = "none" \/ (last.layer = layer /\ last.tbl = t)

\* The guard and the bookkeeping every handler shares.
Serve(layer, t) ==
    /\ now < MaxOps
    /\ SameClient(layer, t)
    /\ now' = now + 1
    /\ db0' = db
    /\ UNCHANGED <<session, txvars>>

\* Tables with an update route / update function.
UpdTables == Tables \ {"users", "project_team_members"}

\* `layer`: "api" (Flask route) or "ui" (repository function of the dashboard).
\* `http`: the status code (0 in the ui layer, which has none); `ok`: the result
\* carries no "error" key; `rid`: the id in the result; `stmts`: statements
\* sent to the store; `rows`: the records a list or get returned.
NoProfile == [user_id |-> NULL, user_name |-> NULL, user_role |-> NULL]

RespP(layer, op, t, id, data, http, ok, error, rid, stmts, profile) ==
    [layer |-> layer, op |-> op, tbl |-> t, id |-> id, data |-> data,
     http |-> http, ok |-> ok, error |-> error, rid |-> rid, stmts |-> stmts,
     profile |-> profile, rows |-> <<>>]

Resp(layer, op, t, id, data, http, ok, error, rid, stmts) ==
    RespP(layer, op, t, id, data, http, ok, error, rid, stmts, NoProfile)

EmptyBody == [k \in {} |-> NULL]

\* set_clauses without the per-entity alias: every key is taken as a column.
set_clauses_NoAlias(t, data) ==
    [k \in DOMAIN data |-> [col |-> k, val |-> data[k]]]

\* The loop over the request's items: one "<key> = %s" per key; project
\* documents write the key "doc_type" as column "type".
set_clauses(t, data) ==
    [k \in DOMAIN data |->
        [col |-> IF t = "project_documents" /\ k = "doc_type" THEN "type" ELSE k,
         val |-> data[k]]]

\* PUT /<entity>/<id>
update_entity(t, id, data) ==
    LET r == SqlUpdate(db, t, id, set_clauses(t, data))
    IN  /\ Serve("api", t)
        /\ IF DOMAIN set_clauses(t, data) = {}
           THEN /\ db' = db
                /\ last' = Resp("api", "update", t, id, data, 400, FALSE,
                                "Nenhum dado fornecido para atualização", NULL, 0)
           ELSE IF r.err # NoErr
           THEN /\ db' = db
                /\ last' = Resp("api", "update", t, id, data, 500, FALSE, r.err, NULL, 1)
           ELSE /\ db' = r.db
                /\ last' = IF r.rowcount > 0
                           THEN Resp("api", "update", t, id, data, 200, TRUE, "",
                                     r.returned, 1)
                           ELSE Resp("api", "update", t, id, data, 404, FALSE,
                                     "não encontrado", NULL, 1)

(***************************************************************************)
(* The dashboard's repository functions.  Those of CurTables take a cursor *)
(* and are run by execute_db_operation; the others take the cached         *)
(* connection themselves and commit or roll back in their own try block.   *)
(***************************************************************************)
CurTables == {"users", "suppliers", "cost_categories", "units_of_measure", "clients",
              "team_members", "projects", "project_services"}

\* What a repository function did: the exception it raised (or NoErr), the
\* store as its statements left it (uncommitted), and the value it returned.
Outcome(raised, d, ok, error, rid, stmts) ==
    [raised |-> raised, db |-> d, ok |-> ok, error |-> error, rid |-> rid,
     stmts |-> stmts]

\* `with conn:` commits when the function returns and rolls back when it
\* raises; an exception becomes the result {"error": str(e)}.
execute_db_operation(d, out) ==
    IF out.raised # NoErr
    THEN [db |-> d, ok |-> FALSE, error |-> out.raised, rid |-> NULL, stmts |-> out.stmts]
    ELSE [db |-> out.db, ok |-> out.ok, error |-> out.error, rid |-> out.rid,
          stmts |-> out.stmts]

\* The functions with their own try block: conn.commit() after the statement,
\* conn.rollback() and {"error": str(e)} in the except clause.
commit_or_rollback(d, out) ==
    IF out.raised # NoErr
    THEN [db |-> d, ok |-> FALSE, error |-> out.raised, rid |-> NULL, stmts |-> out.stmts]
    ELSE [db |-> out.db, ok |-> out.ok, error |-> out.error, rid |-> out.rid,
          stmts |-> out.stmts]

\* update_<entity>_db without the `if not set_clauses` return.
update_db_NoEmptyCheck(d, t, id, updates) ==
    LET r == SqlUpdate(d, t, id, set_clauses(t, updates))
    IN  IF r.err # NoErr
        THEN Outcome(r.err, d, FALSE, r.err, NULL, 1)
        ELSE IF r.rowcount > 0
        THEN Outcome(NoErr, r.db, TRUE, "", r.returned, 1)
        ELSE Outcome(NoErr, r.db, FALSE, "não encontrado.", NULL, 1)

\* update_<entity>_db(id, updates), up to its return or raise.
update_db(d, t, id, updates) ==
    LET r == SqlUpdate(d, t, id, set_clauses(t, updates))
    IN  IF DOMAIN set_clauses(t, updates) = {}
        THEN Outcome(NoErr, d, FALSE, "Nenhum dado fornecido para atualização.", NULL, 0)
        ELSE IF r.err # NoErr
        THEN Outcome(r.err, d, FALSE, r.err, NULL, 1)
        ELSE IF r.rowcount > 0
        THEN Outcome(NoErr, r.db, TRUE, "", r.returned, 1)
        ELSE Outcome(NoErr, r.db, FALSE, "não encontrado.", NULL, 1)

update_entity_db(t, id, updates) ==
    LET out == update_db(db, t, id, updates)
        res == IF t \in CurTables THEN execute_db_operation(db, out)
               ELSE commit_or_rollback(db, out)
    IN  /\ Serve("ui", t)
        /\ db' = res.db
        /\ last' = Resp("ui", "update", t, id, updates, 0, res.ok, res.error, res.rid,
                        res.stmts)

(***************************************************************************)
(* Create: POST /<entity> and add_<entity>_db.                             *)
(***************************************************************************)
\* Fields the route rejects when falsy (`not x`) or when None (`x is None`).
RequiredTruthy == [
    suppliers |-> {"name", "contact"},
    cost_categories |-> {"name"},
    units_of_measure |-> {"name"},
    clients |-> {"name"},
    team_members |-> {"name", "email"},
    projects |-> {"name", "client_id", "address", "start_date", "end_date"},
    project_services |-> {"project_id", "name", "start_date", "end_date"},
    project_documents |-> {"project_id", "name", "file_url"},
    document_versions |-> {"document_id", "version_number", "file_url"},
    daily_logs |-> {"project_id", "log_date"},
    daily_log_activities |-> {"daily_log_id", "step_name"},
    daily_log_costs |-> {"daily_log_id", "description"},
    daily_log_photos |-> {"daily_log_id", "photo_url"},
    project_team_members |-> {"project_id", "team_member_id"} ]

RequiredNotNone(t) ==
    CASE t = "projects" -> {"budget"}
      [] t = "project_services" -> {"cost"}
      [] t = "daily_log_costs" -> {"value"}
      [] OTHER -> {}

\* Optional fields without any default.
FieldDefault_None(t, c) == NULL

\* data.get(key, default) / the keyword default of the repository function.
FieldDefault(t, c) ==
    IF t = "projects" /\ c = "status" THEN "Em Planejamento"
    ELSE IF t = "project_services" /\ c = "progress" THEN ZERO
    ELSE IF t = "users" /\ c = "role" THEN "Usuário"
    ELSE NULL

\* gen_random_uuid() returning any identifier, used or not.
NewIds_NotFresh(d, t) == IF "id" \in Schema[t] THEN IdPool ELSE {NULL}

\* New identifiers gen_random_uuid() can return for table t.
NewIds(d, t) == IF "id" \in Schema[t] THEN IdPool \ {r.id : r \in d[t]} ELSE {NULL}

\* POST /<entity>
add_entity(t, data, newid) ==
    LET fields == [c \in InsertCols[t] |->
                      IF c \in DOMAIN data THEN data[c] ELSE FieldDefault(t, c)]
        r == SqlInsert(db, t, fields, newid, now)
    IN  /\ Serve("api", t)
        /\ IF \/ \E c \in RequiredTruthy[t] : Falsy(fields[c])
              \/ \E c \in RequiredNotNone(t) : fields[c] = NULL
           THEN /\ db' = db
                /\ last' = Resp("api", "create", t, NULL, data, 400, FALSE,
                                "campos obrigatórios", NULL, 0)
           ELSE IF r.err # NoErr
           THEN /\ db' = db
                /\ last' = Resp("api", "create", t, NULL, data, 500, FALSE, r.err, NULL, 1)
           ELSE /\ db' = r.db
                /\ last' = Resp("api", "create", t, NULL, data, 201, TRUE, "",
                                r.returned, 1)

\* Parameters of add_<entity>_db without a default, by the column they fill.
Positional == [
    suppliers |-> {"name", "contact"},
    cost_categories |-> {"name"},
    units_of_measure |-> {"name"},
    clients |-> {"name"},
    team_members |-> {"name", "email"},
    projects |-> {"name", "client_id", "address", "start_date", "end_date"},
    project_services |-> {"project_id", "name", "duration", "start_date", "end_date"},
    project_documents |-> {"project_id", "name", "type", "file_url"},
    document_versions |-> {"document_id", "version_number", "file_url"},
    daily_logs |-> {"project_id", "log_date"},
    daily_log_activities |-> {"daily_log_id", "step_name"},
    daily_log_costs |-> {"daily_log_id", "description", "value"},
    daily_log_photos |-> {"daily_log_id", "photo_url"},
    project_team_members |-> {"project_id", "team_member_id"} ]

\* The parameter of add_<entity>_db that fills column c.
ParamOf(t, c) == IF t = "project_documents" /\ c = "type" THEN "doc_type" ELSE c

\* add_<entity>_db(**args), up to its return or raise.
add_db(d, t, args, newid, n) ==
    LET params == {ParamOf(t, c) : c \in InsertCols[t]}
        fields == [c \in InsertCols[t] |->
                      IF ParamOf(t, c) \in DOMAIN args THEN args[ParamOf(t, c)]
                      ELSE FieldDefault(t, c)]
        r == SqlInsert(d, t, fields, newid, n)
    IN  IF \/ \E c \in Positional[t] : ParamOf(t, c) \notin DOMAIN args
           \/ \E k \in DOMAIN args : k \notin params
        THEN Outcome("TypeError", d, FALSE, "TypeError", NULL, 0)
        ELSE IF r.err = "UniqueViolation" /\ t = "project_team_members"
        THEN Outcome("Associação já existe.", d, FALSE, "Associação já existe.", NULL, 1)
        ELSE IF r.err # NoErr
        THEN Outcome(r.err, d, FALSE, r.err, NULL, 1)
        ELSE Outcome(NoErr, r.db, TRUE, "", r.returned, 1)

add_entity_db(t, args, newid) ==
    LET out == add_db(db, t, args, newid, now)
        res == IF t \in CurTables THEN execute_db_operation(db, out)
               ELSE commit_or_rollback(db, out)
    IN  /\ Serve("ui", t)
        /\ db' = res.db
        /\ last' = Resp("ui", "create", t, NULL, args, 0, res.ok, res.error, res.rid,
                        res.stmts)

(***************************************************************************)
(* Delete: DELETE /<entity>/<id> and delete_<entity>_db.                   *)
(***************************************************************************)
delete_entity(t, id) ==
    LET r == SqlDelete(db, t, id)
    IN  /\ Serve("api", t)
        /\ IF r.err # NoErr
           THEN /\ db' = db
                /\ last' = Resp("api", "delete", t, id, EmptyBody, 500, FALSE, r.err,
                                NULL, 1)
           ELSE /\ db' = r.db
                /\ last' = IF r.rowcount > 0
                           THEN Resp("api", "delete", t, id, EmptyBody, 200, TRUE, "",
                                     r.returned, 1)
                           ELSE Resp("api", "delete", t, id, EmptyBody, 404, FALSE,
                                     "não encontrado", NULL, 1)

delete_db(d, t, id) ==
    LET r == SqlDelete(d, t, id)
    IN  IF r.err # NoErr THEN Outcome(r.err, d, FALSE, r.err, NULL, 1)
        ELSE IF r.rowcount > 0 THEN Outcome(NoErr, r.db, TRUE, "", r.returned, 1)
        ELSE Outcome(NoErr, r.db, FALSE, "não encontrado.", NULL, 1)

delete_entity_db(t, id) ==
    LET out == delete_db(db, t, id)
        res == IF t \in CurTables THEN execute_db_operation(db, out)
               ELSE commit_or_rollback(db, out)
    IN  /\ Serve("ui", t)
        /\ db' = res.db
        /\ last' = Resp("ui", "delete", t, id, EmptyBody, 0, res.ok, res.error, res.rid,
                        res.stmts)

\* DELETE /project_team_members with both identifiers in the body.
delete_project_team_member(data) ==
    LET pid == IF "project_id" \in DOMAIN data THEN data["project_id"] ELSE NULL
        mid == IF "team_member_id" \in DOMAIN data THEN data["team_member_id"] ELSE NULL
        r == SqlDeletePair(db, pid, mid)
    IN  /\ Serve("api", "project_team_members")
        /\ IF Falsy(pid) \/ Falsy(mid)
           THEN /\ db' = db
                /\ last' = Resp("api", "delete", "project_team_members", NULL, data, 400,
                                FALSE, "campos obrigatórios", NULL, 0)
           ELSE IF r.err # NoErr
           THEN /\ db' = db
                /\ last' = Resp("api", "delete", "project_team_members", NULL, data, 500,
                                FALSE, r.err, NULL, 1)
           ELSE /\ db' = r.db
                /\ last' = IF r.rowcount > 0
                           THEN Resp("api", "delete", "project_team_members", NULL, data,
                                     200, TRUE, "", pid, 1)
                           ELSE Resp("api", "delete", "project_team_members", NULL, data,
                                     404, FALSE, "não encontrado", NULL, 1)

delete_project_team_member_db(pid, mid) ==
    LET r == SqlDeletePair(db, pid, mid)
        out == IF r.err # NoErr THEN Outcome(r.err, db, FALSE, r.err, NULL, 1)
               ELSE IF r.rowcount > 0 THEN Outcome(NoErr, r.db, TRUE, "", pid, 1)
               ELSE Outcome(NoErr, r.db, FALSE, "não encontrado.", NULL, 1)
        res == commit_or_rollback(db, out)
    IN  /\ Serve("ui", "project_team_members")
        /\ db' = res.db
        /\ last' = Resp("ui", "delete", "project_team_members", NULL,
                        "project_id" :> pid @@ "team_member_id" :> mid, 0, res.ok,
                        res.error, res.rid, res.stmts)

(***************************************************************************)
(* List and get: GET /<entity>, GET /projects/<id>, get_<entity>_db.       *)
(***************************************************************************)
\* Tables with a list route / get function, and the foreign keys it filters by.
ListTables == Tables \ {"users"}
FilterCols(t) ==
    CASE t \in {"project_services", "project_documents", "daily_logs"} -> {"project_id"}
      [] t = "document_versions" -> {"document_id"}
      [] t \in {"daily_log_activities", "daily_log_costs", "daily_log_photos"} ->
             {"daily_log_id"}
      [] t = "project_team_members" -> {"project_id", "team_member_id"}
      [] OTHER -> {}

\* The WHERE clause for the query arguments args: `if project_id:` takes an
\* absent or empty argument as no filter.
WhereOf(t, args) ==
    [c \in {x \in DOMAIN args \cap FilterCols(t) : args[x] \notin {NULL, EMPTY}} |->
        args[c]]

\* A response that carries records.
RespL(layer, op, t, id, data, http, ok, error, stmts, rows) ==
    [Resp(layer, op, t, id, data, http, ok, error, NULL, stmts) EXCEPT !.rows = rows]

\* GET /<entity>[?<fk>=...]
list_entities(t, args) ==
    LET r == SqlSelect(db, t, WhereOf(t, args))
    IN  /\ Serve("api", t)
        /\ db' = db
        /\ IF r.err # NoErr
           THEN last' = RespL("api", "list", t, NULL, args, 500, FALSE, r.err, 1, <<>>)
           ELSE \E rows \in r.results :
                    last' = RespL("api", "list", t, NULL, args, 200, TRUE, "", 1, rows)

\* get_<entity>_db.  Run by execute_db_operation for the tables of CurTables:
\* an exception becomes an error result.  The others catch the exception,
\* show it and return the empty list.
list_entities_db(t, args) ==
    LET r == SqlSelect(db, t, WhereOf(t, args))
    IN  /\ Serve("ui", t)
        /\ db' = db
        /\ IF r.err # NoErr
           THEN last' = IF t \in CurTables
                        THEN RespL("ui", "list", t, NULL, args, 0, FALSE, r.err, 1, <<>>)
                        ELSE RespL("ui", "list", t, NULL, args, 0, TRUE, r.err, 1, <<>>)
           ELSE \E rows \in r.results :
                    last' = RespL("ui", "list", t, NULL, args, 0, TRUE, "", 1, rows)

\* GET /projects/<id>
get_project(id) ==
    LET r == SqlSelect(db, "projects", [id |-> id])
    IN  /\ Serve("api", "projects")
        /\ db' = db
        /\ IF r.err # NoErr
           THEN last' = RespL("api", "get", "projects", id, EmptyBody, 500, FALSE, r.err,
                              1, <<>>)
           ELSE \E rows \in r.results :
                    last' = IF rows # <<>>
                            THEN RespL("api", "get", "projects", id, EmptyBody, 200, TRUE,
                                       "", 1, rows)
                            ELSE RespL("api", "get", "projects", id, EmptyBody, 404, FALSE,
                                       "não encontrado", 1, <<>>)

\* execute_db_operation(get_project_db, id): the row, or None.
get_project_db(id) ==
    LET r == SqlSelect(db, "projects", [id |-> id])
    IN  /\ Serve("ui", "projects")
        /\ db' = db
        /\ IF r.err # NoErr
           THEN last' = RespL("ui", "get", "projects", id, EmptyBody, 0, FALSE, r.err, 1,
                              <<>>)
           ELSE \E rows \in r.results :
                    last' = RespL("ui", "get", "projects", id, EmptyBody, 0, TRUE, "", 1,
                                  rows)

(***************************************************************************)
(* Credentials: POST /register, POST /login, and register_user_db /        *)
(* login_user_db run through execute_db_operation.                         *)
(***************************************************************************)
\* data.get(key, default)
Get(data, key, default) == IF key \in DOMAIN data THEN data[key] ELSE default

\* POST /register
register_user(data, salt, newid) ==
    LET email == Get(data, "email", NULL)
        password == Get(data, "password", NULL)
        fields == [email |-> email, password_hash |-> hashpw(password, salt),
                   name |-> Get(data, "name", NULL),
                   role |-> Get(data, "role", FieldDefault("users", "role"))]
        r == SqlInsert(db, "users", fields, newid, now)
    IN  /\ Serve("api", "users")
        /\ IF Falsy(email) \/ Falsy(password)
           THEN /\ db' = db
                /\ last' = Resp("api", "register", "users", NULL, data, 400, FALSE,
                                "Email e senha são obrigatórios", NULL, 0)
           ELSE IF r.err = "UniqueViolation"
           THEN /\ db' = db
                /\ last' = Resp("api", "register", "users", NULL, data, 409, FALSE,
                                "Email já registrado", NULL, 1)
           ELSE IF r.err # NoErr
           THEN /\ db' = db
                /\ last' = Resp("api", "register", "users", NULL, data, 500, FALSE, r.err,
                                NULL, 1)
           ELSE /\ db' = r.db
                /\ last' = Resp("api", "register", "users", NULL, data, 201, TRUE, "",
                                r.returned, 1)

\* register_user_db(cur, **args), up to its return or raise.  password.encode
\* raises on None before any statement is sent.
register_user_db(d, args, salt, newid, n) ==
    LET password == Get(args, "password", NULL)
        fields == [email |-> Get(args, "email", NULL),
                   password_hash |-> hashpw(password, salt),
                   name |-> Get(args, "name", NULL),
                   role |-> Get(args, "role", FieldDefault("users", "role"))]
        r == SqlInsert(d, "users", fields, newid, n)
    IN  IF ~({"name", "email", "password"} \subseteq DOMAIN args)
        THEN Outcome("TypeError", d, FALSE, "TypeError", NULL, 0)
        ELSE IF password = NULL
        THEN Outcome("AttributeError", d, FALSE, "AttributeError", NULL, 0)
        ELSE IF r.err # NoErr
        THEN Outcome(r.err, d, FALSE, r.err, NULL, 1)
        ELSE Outcome(NoErr, r.db, TRUE, "", r.returned, 1)

\* execute_db_operation(register_user_db, name, email, password)
register_db(args, salt, newid) ==
    LET res == execute_db_operation(db, register_user_db(db, args, salt, newid, now))
    IN  /\ Serve("ui", "users")
        /\ db' = res.db
        /\ last' = Resp("ui", "register", "users", NULL, args, 0, res.ok, res.error,
                        res.rid, res.stmts)

\* The profile a successful login returns.
Profile(u) == [user_id |-> u.id, user_name |-> u.name, user_role |-> u.role]

\* POST /login (the row is read through a RealDictCursor)
login_user(data) ==
    LET email == Get(data, "email", NULL)
        password == Get(data, "password", NULL)
        user == SelectUser(db, email)
    IN  /\ Serve("api", "users")
        /\ db' = db
        /\ IF Falsy(email) \/ Falsy(password)
           THEN last' = Resp("api", "login", "users", NULL, data, 400, FALSE,
                             "Email e senha são obrigatórios", NULL, 0)
           ELSE IF \E u \in user : checkpw(password, u.password_hash)
           THEN last' = LET u == CHOOSE x \in user : TRUE
                        IN  RespP("api", "login", "users", NULL, data, 200, TRUE, "",
                                  u.id, 1, Profile(u))
           ELSE last' = Resp("api", "login", "users", NULL, data, 401, FALSE,
                             "Email ou senha inválidos", NULL, 1)

\* login_user_db(cur, email, password), up to its return or raise.  cur is the
\* default cursor, whose rows are tuples: user["password_hash"] raises
\* TypeError as soon as a row was found.
login_user_db(d, email, password) ==
    IF SelectUser(d, email) = {}
    THEN Outcome(NoErr, d, FALSE, "Email ou senha inválidos.", NULL, 1)
    ELSE Outcome("tuple indices must be integers or slices, not str", d, FALSE,
                 "tuple indices must be integers or slices, not str", NULL, 1)

\* execute_db_operation(login_user_db, email, password)
login_db(email, password) ==
    LET res == execute_db_operation(db, login_user_db(db, email, password))
    IN  /\ Serve("ui", "users")
        /\ db' = res.db
        /\ last' = Resp("ui", "login", "users", NULL,
                        "email" :> email @@ "password" :> password, 0, res.ok,
                        res.error, res.rid, res.stmts)

(***************************************************************************)
(* Stores the requests start from, each built by INSERT statements on the  *)
(* empty store, and the requests.                                          *)
(***************************************************************************)
EmptyDb == [t \in Tables |-> {}]

\* A complete, well-typed field mapping for table t: text txt, references ref.
SampleFields(t, txt, ref) ==
    [c \in InsertCols[t] |->
        IF c \in UuidCols THEN ref
        ELSE IF c \in DateCols THEN "2024-01-01"
        ELSE IF c \in NumCols THEN "7"
        ELSE txt]

\* Parents before children.
SeedOrder == <<"suppliers", "cost_categories", "units_of_measure", "clients",
               "team_members", "projects", "project_services", "project_documents",
               "document_versions", "daily_logs", "daily_log_activities",
               "daily_log_costs", "daily_log_photos", "project_team_members">>

\* d with one row more in each of the first n tables of SeedOrder.
RECURSIVE SeedChain(_, _, _, _)
SeedChain(d, n, txt, id) ==
    IF n = 0 THEN d
    ELSE SqlInsert(SeedChain(d, n - 1, txt, id), SeedOrder[n],
                   SampleFields(SeedOrder[n], txt, id), id, 0).db

\* The users row a registration with these inputs stores.
UserFields(email, password, name, role, salt) ==
    [email |-> email, password_hash |-> hashpw(password, salt), name |-> name,
     role |-> role]

Seed1 == SqlInsert(SeedChain(EmptyDb, Len(SeedOrder), "a", "id1"), "users",
                   UserFields("a@x", "pw1", "Ana", "Admin", "s1"), "id1", 0).db
Seed2 == SqlInsert(SeedChain(Seed1, Len(SeedOrder), "b", "id2"), "users",
                   UserFields("b@x", "pw2", "Bia", "Usuário", "s2"), "id2", 0).db
SeedStores == {EmptyDb, Seed2}

\* Request ids: well-formed ones (stored or not) and a malformed one.
RequestIds == IdPool \cup {BadId}

\* Two columns of each table for the update requests: one declared NOT NULL
\* and one nullable.
RequiredCol(t) ==
    CASE t = "document_versions" -> "version_number"
      [] t = "daily_logs" -> "log_date"
      [] t = "daily_log_activities" -> "daily_log_id"
      [] t = "daily_log_costs" -> "description"
      [] t = "daily_log_photos" -> "photo_url"
      [] OTHER -> "name"
OptionalCol(t) ==
    CASE t = "units_of_measure" -> "created_at"
      [] t = "cost_categories" -> "description"
      [] t = "team_members" -> "role"
      [] t = "projects" -> "created_at"
      [] t = "project_services" -> "unit"
      [] t = "project_documents" -> "type"
      [] t = "document_versions" -> "file_url"
      [] t = "daily_log_activities" -> "step_name"
      [] t = "daily_log_costs" -> "category"
      [] t = "daily_log_photos" -> "description"
      [] OTHER -> "notes"
NewValue(c) ==
    IF c \in UuidCols THEN "id2"
    ELSE IF c \in DateCols THEN "2024-02-01"
    ELSE IF c \in NumCols THEN ZERO
    ELSE IF c \in TsCols THEN Ts(9)
    ELSE "b"

UpdateBodies(t) ==
    LET c1 == RequiredCol(t)
        c2 == OptionalCol(t)
    IN  { EmptyBody,
          c1 :> NewValue(c1),
          c1 :> NULL,
          c2 :> NULL,
          c1 :> NewValue(c1) @@ c2 :> NewValue(c2),
          "bogus" :> "x",
          c1 :> NewValue(c1) @@ "bogus" :> "x",
          "id" :> "id3",
          "id" :> "id2",
          "id" :> "id3" @@ c2 :> NewValue(c2),
          "doc_type" :> "pdf",
          "doc_type" :> "pdf" @@ "type" :> "dwg" }

\* f without key k, and f with key k set to v.
Without(f, k) == [x \in DOMAIN f \ {k} |-> f[x]]
With(f, k, v) == [x \in DOMAIN f \cup {k} |-> IF x = k THEN v ELSE f[x]]

\* Tables with a create route / add function other than registration.
CreateTables == Tables \ {"users"}

\* The falsy non-null value of a column's type.
Blank(c) == IF c \in NumCols THEN ZERO ELSE EMPTY

\* Create requests: complete ones (fresh text, text already stored, a parent
\* that does not exist), the required fields alone, and each field the route
\* or the function's signature requires left out, null, or blank.
CreateBodies(t) ==
    LET base == SampleFields(t, "c", "id1")
        req == RequiredTruthy[t] \cup RequiredNotNone(t) \cup Positional[t]
    IN  { base,
          SampleFields(t, "a", "id1"),
          SampleFields(t, "c", "id3"),
          [c \in RequiredTruthy[t] \cup RequiredNotNone(t) |-> base[c]],
          [c \in Positional[t] |-> base[c]],
          With(base, "id", "id3"),
          With(With(base, "id", "id2"), "created_at", Ts(9)),
          With(base, CHOOSE c \in RequiredTruthy[t] : TRUE, BadId) }
        \cup { Without(base, c) : c \in req }
        \cup { With(base, c, NULL) : c \in req }
        \cup { With(base, c, Blank(c)) : c \in req }
        \cup { With(base, "team_member_id", "id2") : x \in {t} \cap {"project_team_members"} }

\* The keyword arguments that pass the fields of body to add_<entity>_db.
UiArgs(t, body) ==
    [k \in {ParamOf(t, c) : c \in DOMAIN body} |->
        body[CHOOSE c \in DOMAIN body : ParamOf(t, c) = k]]

\* Association keys for the delete-by-pair requests.
PairBodies ==
    { [project_id |-> "id1", team_member_id |-> "id1"],
      [project_id |-> "id1", team_member_id |-> "id2"],
      [project_id |-> "id1", team_member_id |-> NULL],
      [project_id |-> BadId, team_member_id |-> "id1"],
      [project_id |-> "id2"] }

\* Registration and login requests.
Emails == {"a@x", "c@x"}
Passwords == {"pw1", "pw3"}
RegisterBodies ==
    { [email |-> e, password |-> pw, name |-> "Caio"] : e \in Emails, pw \in Passwords }
    \cup { [email |-> e, password |-> "pw3", name |-> "Caio", role |-> "Admin"] :
             e \in Emails }
    \cup { [email |-> e, password |-> pw, name |-> "Caio"] :
             e \in Emails, pw \in {NULL, EMPTY} }
    \cup { [email |-> e, password |-> "pw3", name |-> "Caio"] : e \in {NULL, EMPTY} }
    \cup { [email |-> e, name |-> "Caio"] : e \in Emails }
    \cup { [email |-> e, password |-> "pw3"] : e \in Emails }
LoginBodies ==
    { [email |-> e, password |-> pw] :
        e \in Emails \cup {"b@x", EMPTY}, pw \in Passwords \cup {"pw2", EMPTY} }
    \cup { [email |-> "a@x"] }

\* Query arguments of the list requests: none, one foreign key (stored,
\* not stored, malformed), and both keys of an association.
ListArgs(t) ==
    {EmptyBody}
    \cup { c :> v : c \in FilterCols(t), v \in {"id1", "id3", BadId} }
    \cup { [c \in FilterCols(t) |-> "id1"] : x \in {t} \cap {"project_team_members"} }

\* The session state the script sets when a key is missing, and the page the
\* dispatch at the end of the script renders for it.
\* The dispatch testing show_register before logged_in is consulted.
Dispatch_RegisterIsMain(logged_in, show_register) ==
    IF logged_in \/ show_register THEN "main" ELSE "login"

Dispatch(logged_in, show_register) ==
    IF logged_in THEN "main" ELSE IF show_register THEN "register" ELSE "login"

Session(logged_in, user_info, show_register) ==
    [logged_in |-> logged_in, user_info |-> user_info, show_register |-> show_register,
     page |-> Dispatch(logged_in, show_register)]

\* user_info None is the profile without a user.
NewSession == Session(FALSE, NoProfile, FALSE)

NoRequest == Resp("none", "none", "none", NULL, EmptyBody, 0, FALSE, "", NULL, 0)

\* The threads that serve requests (API) or run sessions (dashboard), and
\* the connections: the dashboard's cached one, and one per API request,
\* named by the thread that opened it.
Procs == {"p1", "p2"}
Cached == "cached"
Conns == Procs \cup {Cached}

NoOp == [layer |-> "none", kind |-> "none", tbl |-> "none", id |-> NULL,
         data |-> EmptyBody]

\* A thread that runs operation op and has got as far as pc.
Proc(pc, op) ==
    [pc |-> pc, op |-> op, raised |-> NoErr, swallowed |-> FALSE, ok |-> FALSE,
     http |-> 0, rid |-> NULL, calls |-> <<>>, order |-> 0]

Closed == [open |-> FALSE, tx |-> "idle"]
NoPend == [owner |-> "none", db |-> [t \in {} |-> {}]]

\* No connection made, no operation running.
Quiet ==
    /\ conn = [c \in Conns |-> Closed]
    /\ pend = NoPend
    /\ proc = [p \in Procs |-> Proc("idle", NoOp)]

Init ==
    /\ db \in SeedStores
    /\ db0 = db
    /\ now = 0
    /\ last = NoRequest
    /\ session = NewSession
    /\ url = TRUE
    /\ Quiet

\* The tables of S a request through layer can be served for (see Serve).
Served(layer, S) ==
    IF now < MaxOps THEN {t \in S : SameClient(layer, t)} ELSE {}

Next ==
    \/ \E t \in Served("api", UpdTables), id \in RequestIds :
           \E data \in UpdateBodies(t) : update_entity(t, id, data)
    \/ \E t \in Served("ui", UpdTables), id \in RequestIds :
           \E updates \in UpdateBodies(t) : update_entity_db(t, id, updates)
    \/ \E t \in Served("api", CreateTables) :
           \E data \in CreateBodies(t), newid \in NewIds(db, t) :
               add_entity(t, data, newid)
    \/ \E t \in Served("ui", CreateTables) :
           \E data \in CreateBodies(t), newid \in NewIds(db, t) :
               add_entity_db(t, UiArgs(t, data), newid)
    \/ \E t \in Served("api", UpdTables), id \in RequestIds : delete_entity(t, id)
    \/ \E t \in Served("ui", UpdTables), id \in RequestIds : delete_entity_db(t, id)
    \/ \E t \in Served("api", {"project_team_members"}), data \in PairBodies :
           delete_project_team_member(data)
    \/ \E t \in Served("ui", {"project_team_members"}), data \in PairBodies :
           delete_project_team_member_db(Get(data, "project_id", NULL),
                                         Get(data, "team_member_id", NULL))
    \/ \E t \in Served("api", {"users"}), data \in RegisterBodies, salt \in Salts :
           \E newid \in NewIds(db, t) : register_user(data, salt, newid)
    \/ \E t \in Served("ui", {"users"}), args \in RegisterBodies, salt \in Salts :
           \E newid \in NewIds(db, t) : register_db(args, salt, newid)
    \/ \E t \in Served("api", ListTables) :
           \E args \in ListArgs(t) : list_entities(t, args)
    \/ \E t \in Served("ui", ListTables) :
           \E args \in ListArgs(t) : list_entities_db(t, args)
    \/ \E t \in Served("api", {"projects"}), id \in RequestIds : get_project(id)
    \/ \E t \in Served("ui", {"projects"}), id \in RequestIds : get_project_db(id)
    \/ \E t \in Served("api", {"users"}), data \in LoginBodies : login_user(data)
    \/ \E t \in Served("ui", {"users"}), data \in LoginBodies :
           /\ DOMAIN data = {"email", "password"}
           /\ login_db(data.email, data.password)

Spec == Init /\ [][Next]_vars

\* The seed stores and every reachable store satisfy the schema.
SchemaOK ==
    \A t \in Tables : \A r \in db[t] :
        /\ DOMAIN r = Schema[t]
        /\ \A c \in Schema[t] : Accepts(c, r[c])
        /\ \A c \in NotNull[t] : r[c] # NULL
        /\ ~UniqueClash(t, r, db[t] \ {r})
        /\ ParentsExist(db, t, r)
SeedsOK ==
    /\ \A t \in Tables : Cardinality(Seed1[t]) = 1 /\ Cardinality(Seed2[t]) = 2

(***************************************************************************)
(* Properties of the update operation.  `last` is the request just served  *)
(* with its response, db0 the store before it and db the store after it.   *)
(***************************************************************************)
\* The row of table t of store d with identifier id.
RowOf(d, t, id) == CHOOSE r \in d[t] : r.id = id
Exists(d, t, id) == \E r \in d[t] : r.id = id

\* C1: for every entity and every id, update(id, {}) fails with a validation
\* error (HTTP 400 on the API, an error result in the dashboard), sends no
\* statement to the store and leaves every stored record unchanged.
C1_EmptyUpdateRejected ==
    (last.op = "update" /\ DOMAIN last.data = {}) =>
        /\ ~last.ok
        /\ last.layer = "api" => last.http = 400
        /\ last.rid = NULL
        /\ last.stmts = 0
        /\ db = db0

\* An empty update aimed at a stored record, through the dashboard.
C1_Witness ==
    /\ last.op = "update" /\ DOMAIN last.data = {}
    /\ last.layer = "ui"
    /\ Exists(db0, last.tbl, last.id)
    /\ ~last.ok

\* C2: for every entity, an update whose mapping has a key that is no column
\* of the entity (after aliasing) fails with a validation error (HTTP 400)
\* and changes no field of any record.
C2_UnknownKeyRejected ==
    (/\ last.op = "update"
     /\ \E k \in DOMAIN last.data :
            set_clauses(last.tbl, last.data)[k].col \notin Schema[last.tbl]) =>
        /\ ~last.ok
        /\ last.layer = "api" => last.http = 400
        /\ db = db0

\* C3: identifiers are immutable: no update, whatever its keys, changes the
\* identifier of any record (an update neither creates nor deletes, so every
\* table holds the same identifiers before and after it).
C3_IdImmutable ==
    last.op = "update" =>
        \A t \in UpdTables : {r.id : r \in db[t]} = {r.id : r \in db0[t]}

\* C4: a successful update(id, fields) sets exactly the columns named in
\* fields on the record with that id, returns that id, and leaves every other
\* column of that record and every other record of every table unchanged.
C4_UpdateFrame ==
    (last.op = "update" /\ last.ok) =>
        /\ Exists(db0, last.tbl, last.id)
        /\ last.rid = last.id
        /\ LET old == RowOf(db0, last.tbl, last.id)
               cl == set_clauses(last.tbl, last.data)
               new == [c \in Schema[last.tbl] |->
                          IF \E k \in DOMAIN cl : cl[k].col = c
                          THEN cl[CHOOSE k \in DOMAIN cl : cl[k].col = c].val
                          ELSE old[c]]
           IN  db = [db0 EXCEPT ![last.tbl] = (@ \ {old}) \cup {new}]

\* A mapping the store accepts for whichever record it is applied to.
ValidMapping(d, t, data) ==
    /\ DOMAIN data # {}
    /\ \A id \in IdPool : SqlUpdate(d, t, id, set_clauses(t, data)).err = NoErr

\* C5: update(id, fields) with a non-empty valid mapping returns the updated
\* identifier (HTTP 200) exactly when a row with that id exists; when the id
\* matches no row it returns the not-found signal (HTTP 404) and leaves the
\* store unchanged.
C5_NotFoundIffNoRow ==
    (last.op = "update" /\ ValidMapping(db0, last.tbl, last.data)) =>
        IF Exists(db0, last.tbl, last.id)
        THEN /\ last.ok /\ last.rid # NULL
             /\ last.layer = "api" => last.http = 200
        ELSE /\ ~last.ok /\ last.rid = NULL
             /\ last.layer = "api" => last.http = 404
             /\ last.layer = "ui" => last.error = "não encontrado."
             /\ db = db0

\* C6: for project documents, update(id, {"doc_type": v}) sets the column
\* "type" of the document with that id to v and changes nothing else; the
\* alias belongs to project documents only: no other entity accepts the key.
C6_DocTypeAlias ==
    (last.op = "update" /\ DOMAIN last.data = {"doc_type"}) =>
        IF last.tbl = "project_documents" /\ Exists(db0, last.tbl, last.id)
        THEN LET old == RowOf(db0, last.tbl, last.id)
             IN  /\ last.ok /\ last.rid = last.id
                 /\ db = [db0 EXCEPT !["project_documents"] =
                             (@ \ {old}) \cup {[old EXCEPT !.type = last.data.doc_type]}]
                 /\ RowOf(db, last.tbl, last.id).type = last.data.doc_type
        ELSE ~last.ok /\ db = db0

\* A document whose type was changed through the key "doc_type".
C6_Witness ==
    /\ last.op = "update" /\ DOMAIN last.data = {"doc_type"}
    /\ last.tbl = "project_documents"
    /\ last.ok
    /\ RowOf(db0, last.tbl, last.id).type # last.data.doc_type
    /\ RowOf(db, last.tbl, last.id).type = last.data.doc_type

(***************************************************************************)
(* Properties of the credential store.                                     *)
(***************************************************************************)
\* The request carries a usable email and password.
Credentials(data) ==
    /\ {"email", "password"} \subseteq DOMAIN data
    /\ ~Falsy(data.email) /\ ~Falsy(data.password)

\* The stored users data.email and data.password authenticate.
Authentic(d, data) ==
    {u \in SelectUser(d, data.email) : checkpw(data.password, u.password_hash)}

\* C7: for every registered user, authenticate with the registered email and
\* the password given at registration returns that user's stored id, name
\* and role, on the API login route and on the dashboard's login path.
C7_LoginReturnsProfile ==
    (last.op = "login" /\ Credentials(last.data)) =>
        \A u \in Authentic(db0, last.data) :
            /\ last.ok
            /\ last.profile = Profile(u)

\* The failure result of a login that must not tell why it failed.
GenericFailure(layer) ==
    IF layer = "api" THEN [http |-> 401, error |-> "Email ou senha inválidos"]
    ELSE [http |-> 0, error |-> "Email ou senha inválidos."]

\* C8: authenticate does not reveal whether an email exists: for a non-empty
\* email and password that do not authenticate, the failure result (status
\* and message) is the same whether the email is registered or not, on the
\* API login route and on the dashboard's login path.
C8_NoEmailEnumeration ==
    (/\ last.op = "login" /\ Credentials(last.data)
     /\ Authentic(db0, last.data) = {}) =>
        /\ ~last.ok
        /\ [http |-> last.http, error |-> last.error] = GenericFailure(last.layer)

\* C9: register with an email that already belongs to a stored user fails
\* with Conflict (HTTP 409 on the API, the store's uniqueness error in the
\* dashboard) and creates no user: the stored users, with their hash, name
\* and role, are unchanged; and there is at most one user per email in every
\* reachable state.  (The request is otherwise complete: it has a password.)
C9_DuplicateEmailConflict ==
    /\ \A u1, u2 \in db["users"] : u1.email = u2.email => u1 = u2
    /\ (/\ last.op = "register" /\ Credentials(last.data)
        /\ (last.layer = "ui" => "name" \in DOMAIN last.data)
        /\ SelectUser(db0, last.data.email) # {}) =>
           /\ ~last.ok
           /\ last.rid = NULL
           /\ last.layer = "api" => last.http = 409
           /\ last.layer = "ui" => last.error = "UniqueViolation"
           /\ db = db0

\* A registration refused because its email is taken, the store as before.
C9_Witness ==
    /\ last.op = "register" /\ Credentials(last.data)
    /\ SelectUser(db0, last.data.email) # {}
    /\ last.layer = "api" /\ last.http = 409
    /\ Cardinality(db["users"]) = 2

(***************************************************************************)
(* Properties of create.                                                   *)
(***************************************************************************)
\* The fields of entity t a create request must carry.
Required(t) == RequiredTruthy[t] \cup RequiredNotNone(t)

\* The request leaves field c of entity t out or passes null for it.
MissingOrNull(layer, t, data, c) ==
    LET k == IF layer = "ui" THEN ParamOf(t, c) ELSE c
    IN  k \notin DOMAIN data \/ data[k] = NULL

\* C10: for every entity, create with a required field missing or null fails
\* with a validation error (HTTP 400) and inserts nothing: the store is
\* unchanged and no identifier is returned.
C10_RequiredFieldsChecked ==
    (/\ last.op = "create"
     /\ \E c \in Required(last.tbl) :
            MissingOrNull(last.layer, last.tbl, last.data, c)) =>
        /\ ~last.ok
        /\ last.rid = NULL
        /\ last.layer = "api" => last.http = 400
        /\ db = db0

\* The INSERT values an API create request with body data yields.
FieldsOf(t, data) ==
    [c \in InsertCols[t] |-> IF c \in DOMAIN data THEN data[c] ELSE FieldDefault(t, c)]

\* Every foreign key of the request names a stored parent, and no stored
\* record has the request's unique key.
ValidRefs(d, t, f) ==
    /\ \A fk \in ForeignKeys :
           fk.tbl = t => (f[fk.col] = NULL \/ Exists(d, fk.ref, f[fk.col]))
    /\ \A k \in UniqueKeys[t] \ {{"id"}} :
           ~\E o \in d[t] : \A c \in k : f[c] = o[c]

\* The record a create of fields f stores under identifier id at clock n.
Stored(t, f, id, n) ==
    [c \in Schema[t] |-> IF c \in DOMAIN f THEN f[c] ELSE ColumnDefault(t, c, id, n)]

\* The request was answered 201 with a store-generated identifier, and the
\* store gained exactly the record of the request under that identifier.
Created(t, f) ==
    /\ last.ok /\ last.http = 201
    /\ last.rid \in IdPool
    /\ ~Exists(db0, t, last.rid)
    /\ db = [db0 EXCEPT ![t] = @ \cup {Stored(t, f, last.rid, now - 1)}]

StoredOrDefault(t, c, dflt) ==
    (last.op \in {"create", "register"} /\ last.tbl = t /\ last.ok) =>
        RowOf(db, t, last.rid)[c] = IF c \in DOMAIN last.data THEN last.data[c] ELSE dflt

\* C12: defaults apply when an optional field is absent on create: a project
\* without a status is stored with the planning status, a project service
\* without progress with progress 0, a user registered without a role with
\* the default role; a supplied value is stored as given.
C12_DefaultsApplied ==
    /\ StoredOrDefault("projects", "status", "Em Planejamento")
    /\ StoredOrDefault("project_services", "progress", "0")
    /\ StoredOrDefault("users", "role", "Usuário")

\* A project created without a status and stored with the planning status.
C12_Witness ==
    /\ last.op = "create" /\ last.tbl = "projects" /\ last.ok
    /\ "status" \notin DOMAIN last.data
    /\ RowOf(db, "projects", last.rid).status = "Em Planejamento"

(***************************************************************************)
(* Properties of list and get, stated on the store a request leaves: the   *)
(* list or get that follows it returns one of SqlSelect's results for it.  *)
(***************************************************************************)
\* The fields a create request passes to the INSERT, by column.
InputOf(layer, t, data) ==
    [c \in InsertCols[t] |->
        LET k == IF layer = "ui" THEN ParamOf(t, c) ELSE c
        IN  IF k \in DOMAIN data THEN data[k] ELSE FieldDefault(t, c)]

\* Record rec has identifier id and the fields f.
Carries(rec, id, f) == rec.id = id /\ \A c \in DOMAIN f : rec[c] = f[c]

DeleteById == last.op = "delete" /\ last.tbl \in UpdTables

\* C14: delete of an id that matches no row returns NotFound (HTTP 404) and
\* changes nothing; after a successful delete(id) the record is gone: get(id)
\* finds nothing, no list contains it, and (by the first part, the id now
\* matching no row) a second delete(id) returns NotFound.
C14_DeleteNotFound ==
    /\ (DeleteById /\ ~Exists(db0, last.tbl, last.id)) =>
           /\ ~last.ok
           /\ last.layer = "api" => last.http = 404
           /\ last.layer = "ui" => last.error = "não encontrado."
           /\ db = db0
    /\ (DeleteById /\ last.ok) =>
           /\ ~Exists(db, last.tbl, last.id)
           /\ \A seq \in SqlSelect(db, last.tbl, EmptyBody).results :
                  \A i \in 1..Len(seq) : seq[i].id # last.id
           /\ SqlSelect(db, last.tbl, [id |-> last.id]).results = {<<>>}

\* C15: deleting a client fails with Conflict (HTTP 409) and leaves the
\* client and its projects stored for as long as a project references it, and
\* succeeds as soon as none does (as in: create client C, create project P
\* of C, delete C: Conflict; delete P; delete C: success).
C15_ClientRestrict ==
    (DeleteById /\ last.tbl = "clients" /\ Exists(db0, "clients", last.id)) =>
        IF \E p \in db0["projects"] : p.client_id = last.id
        THEN /\ ~last.ok
             /\ last.layer = "api" => last.http = 409
             /\ db = db0
        ELSE /\ last.ok
             /\ ~Exists(db, "clients", last.id)

\* The identifiers of the rows of table t of store d under parent (col = id).
ChildIds(d, t, col, id) == {r.id : r \in {x \in d[t] : x[col] = id}}

\* The store db0 without project P and everything below it.
WithoutProject(P) ==
    LET docs == ChildIds(db0, "project_documents", "project_id", P)
        logs == ChildIds(db0, "daily_logs", "project_id", P)
    IN  [t \in Tables |->
            CASE t = "projects" -> {r \in db0[t] : r.id # P}
              [] t \in {"project_services", "project_documents", "daily_logs",
                        "project_team_members"} -> {r \in db0[t] : r.project_id # P}
              [] t = "document_versions" -> {r \in db0[t] : r.document_id \notin docs}
              [] t \in {"daily_log_activities", "daily_log_costs", "daily_log_photos"} ->
                     {r \in db0[t] : r.daily_log_id \notin logs}
              [] OTHER -> db0[t]]

\* The store db0 without daily log L and everything below it.
WithoutDailyLog(L) ==
    [t \in Tables |->
        CASE t = "daily_logs" -> {r \in db0[t] : r.id # L}
          [] t \in {"daily_log_activities", "daily_log_costs", "daily_log_photos"} ->
                 {r \in db0[t] : r.daily_log_id # L}
          [] OTHER -> db0[t]]

\* C16: cascade delete removes every dependent: after deleting a project none
\* of its services, documents, daily logs or team links remain, nor any
\* version, activity, cost or photo below them; after deleting a daily log,
\* listing its activities, costs and photos returns empty; records of other
\* parents are untouched.
C16_CascadeDelete ==
    /\ (DeleteById /\ last.ok /\ last.tbl = "projects") => db = WithoutProject(last.id)
    /\ (DeleteById /\ last.ok /\ last.tbl = "daily_logs") =>
           /\ db = WithoutDailyLog(last.id)
           /\ \A t \in {"daily_log_activities", "daily_log_costs", "daily_log_photos"} :
                  SqlSelect(db, t, [daily_log_id |-> last.id]).results = {<<>>}

\* A deleted project whose document had a version, while the other project
\* keeps its own.
C16_Witness ==
    /\ DeleteById /\ last.ok /\ last.tbl = "projects"
    /\ \E v \in db0["document_versions"] :
           /\ v.document_id \in ChildIds(db0, "project_documents", "project_id", last.id)
           /\ v \notin db["document_versions"]
    /\ db["document_versions"] # {}

\* The rows S with the uploaded_by reference to member M cleared.
UploaderCleared(S, M) ==
    { IF r.uploaded_by = M THEN [r EXCEPT !.uploaded_by = NULL] ELSE r : r \in S }

\* C17: deleting a team member clears the uploaded_by reference of every
\* project document and daily-log photo that referenced the member, without
\* deleting those records or changing another field of them; the member's
\* project-team links are deleted, the linked projects are not.
C17_TeamMemberSetNull ==
    (DeleteById /\ last.ok /\ last.tbl = "team_members") =>
        /\ db["project_documents"] = UploaderCleared(db0["project_documents"], last.id)
        /\ db["daily_log_photos"] = UploaderCleared(db0["daily_log_photos"], last.id)
        /\ Cardinality(db["project_documents"]) = Cardinality(db0["project_documents"])
        /\ Cardinality(db["daily_log_photos"]) = Cardinality(db0["daily_log_photos"])
        /\ db["project_team_members"] =
               {r \in db0["project_team_members"] : r.team_member_id # last.id}
        /\ db["projects"] = db0["projects"]

\* A deleted member who had uploaded a document and a photo and was linked
\* to a project.
C17_Witness ==
    /\ DeleteById /\ last.ok /\ last.tbl = "team_members"
    /\ \E r \in db0["project_documents"] : r.uploaded_by = last.id
    /\ \E r \in db0["daily_log_photos"] : r.uploaded_by = last.id
    /\ \E r \in db0["project_team_members"] : r.team_member_id = last.id
    /\ \E r \in db["project_documents"] : r.uploaded_by = NULL

(***************************************************************************)
(* Properties of uniqueness, ordering and filtering.                       *)
(***************************************************************************)
\* Some stored record of d[t] has the unique key of the fields f.
Duplicate(d, t, f) ==
    \E k \in UniqueKeys[t] \ {{"id"}} : \E o \in d[t] :
        \A c \in k : f[c] # NULL /\ f[c] = o[c]

\* C18: a create that violates a uniqueness rule (a second project-team link
\* for the same pair, a duplicate cost-category name, unit name or
\* team-member email) is answered Conflict (409 on the API) and inserts
\* nothing; at most one association exists per (project, member) pair in
\* every reachable state.
C18_DuplicateConflict ==
    /\ \A t \in Tables : \A r1, r2 \in db[t] : \A k \in UniqueKeys[t] :
           (\A c \in k : r1[c] # NULL /\ r1[c] = r2[c]) => r1 = r2
    /\ (/\ last.op = "create"
        /\ \A c \in Required(last.tbl) :
               ~MissingOrNull(last.layer, last.tbl, last.data, c)
        /\ \A c \in RequiredTruthy[last.tbl] :
               ~Falsy(FieldsOf(last.tbl, last.data)[c])
        /\ Duplicate(db0, last.tbl, FieldsOf(last.tbl, last.data))) =>
           /\ ~last.ok
           /\ db = db0
           /\ last.layer = "api" => last.http = 409

\* The order the lists of entity t are declared to come in.
DeclaredOrder(t) ==
    CASE t = "document_versions" -> [col |-> "version_number", dir |-> "DESC"]
      [] t = "daily_logs" -> [col |-> "log_date", dir |-> "DESC"]
      [] t \in {"daily_log_activities", "daily_log_costs"} ->
             [col |-> "created_at", dir |-> "DESC"]
      [] t = "daily_log_photos" -> [col |-> "upload_date", dir |-> "DESC"]
      [] t = "project_team_members" -> [col |-> "none", dir |-> "none"]
      [] OTHER -> [col |-> "name", dir |-> "ASC"]

\* C19: every list result comes in the entity's declared order, with or
\* without a foreign-key filter: by name ascending for the catalogs, clients,
\* team members, projects, services and documents; document versions by
\* version number descending; daily logs by log date descending; activities
\* and costs by creation time descending; photos by upload date descending.
C19_ListOrdered ==
    /\ \A t \in ListTables : \A args \in ListArgs(t) :
           \A seq \in SqlSelect(db, t, WhereOf(t, args)).results :
               Ordered(seq, DeclaredOrder(t))
    /\ (last.op = "list" /\ last.ok) => Ordered(last.rows, DeclaredOrder(last.tbl))

\* The stored records of d[t] whose foreign keys equal the filter values of
\* args; all of them when args names no filter.
Matching(d, t, args) ==
    { r \in d[t] : \A c \in DOMAIN args \cap FilterCols(t) : r[c] = args[c] }

\* The stored columns of the records of the sequence rows of entity t.
RecordsOf(t, rows) ==
    { [c \in Schema[t] |-> rows[i][c]] : i \in 1..Len(rows) }

\* C20: a list with a foreign-key filter returns exactly the stored records
\* whose foreign key equals the filter value, none of another parent and none
\* missing; a list without a filter returns every stored record of the
\* entity; a list never changes the store.
C20_ListFilter ==
    last.op = "list" =>
        /\ db = db0
        /\ last.ok
        /\ RecordsOf(last.tbl, last.rows) = Matching(db0, last.tbl, last.data)
        /\ Len(last.rows) = Cardinality(Matching(db0, last.tbl, last.data))

(***************************************************************************)
(* Referential integrity.                                                  *)
(***************************************************************************)
\* Every non-null foreign key of every stored row of d names a stored parent.
Integrity(d) ==
    \A fk \in ForeignKeys : \A r \in d[fk.tbl] :
        r[fk.col] # NULL => \E p \in d[fk.ref] : p.id = r[fk.col]

MaxClicks == 3

\* The bookkeeping every button handler shares.
Click(page) ==
    /\ now < MaxClicks
    /\ session.page = page
    /\ now' = now + 1
    /\ db0' = db
    /\ UNCHANGED txvars

\* A click answered on the page without touching the store.
Shown(op, data, ok, text) ==
    Resp("ui", op, "users", NULL, data, 0, ok, text, NULL, 0)

\* "Entrar" on the login page.
click_login(email, password) ==
    LET res == execute_db_operation(db, login_user_db(db, email, password))
        data == "email" :> email @@ "password" :> password
    IN  /\ Click("login")
        /\ IF Falsy(email) \/ Falsy(password)
           THEN /\ db' = db
                /\ session' = session
                /\ last' = Shown("login", data, FALSE, "Por favor, insira email e senha.")
           ELSE /\ db' = res.db
                /\ last' = Resp("ui", "login", "users", NULL, data, 0, res.ok, res.error,
                                res.rid, res.stmts)
                /\ session' = IF res.ok
                              THEN Session(TRUE,
                                           [NoProfile EXCEPT !.user_id = res.rid],
                                           session.show_register)
                              ELSE session

\* "Registrar" on the login page.
click_show_register ==
    /\ Click("login")
    /\ db' = db
    /\ session' = Session(session.logged_in, session.user_info, TRUE)
    /\ last' = Shown("show_register", EmptyBody, TRUE, "")

\* "Criar Conta" on the registration page.
click_create_account(name, email, password, confirm, salt, newid) ==
    LET args == [name |-> name, email |-> email, password |-> password]
        res == execute_db_operation(db, register_user_db(db, args, salt, newid, now))
    IN  /\ Click("register")
        /\ IF password # confirm
           THEN /\ db' = db
                /\ session' = session
                /\ last' = Shown("register", args, FALSE, "As senhas não coincidem.")
           ELSE IF Falsy(name) \/ Falsy(email) \/ Falsy(password)
           THEN /\ db' = db
                /\ session' = session
                /\ last' = Shown("register", args, FALSE,
                                 "Por favor, preencha todos os campos.")
           ELSE /\ db' = res.db
                /\ last' = Resp("ui", "register", "users", NULL, args, 0, res.ok,
                                res.error, res.rid, res.stmts)
                /\ session' = IF res.ok
                              THEN Session(session.logged_in, session.user_info, FALSE)
                              ELSE session

\* "Voltar para Login" on the registration page.
click_back_to_login ==
    /\ Click("register")
    /\ db' = db
    /\ session' = Session(session.logged_in, session.user_info, FALSE)
    /\ last' = Shown("back_to_login", EmptyBody, TRUE, "")

\* "Sair" on the main page.  The main page is rendered for no reachable
\* session (login_user_db raises for every stored user), so the button is no
\* disjunct of NextUI.
click_logout ==
    /\ Click("main")
    /\ db' = db
    /\ session' = Session(FALSE, NoProfile, FALSE)
    /\ last' = Shown("logout", EmptyBody, TRUE, "")

\* What the user types into the forms.
Names == {"Caio", EMPTY}
LoginEmails == Emails \cup {EMPTY}

NextUI ==
    \/ \E email \in LoginEmails, password \in Passwords : click_login(email, password)
    \/ click_show_register
    \/ \E name \in Names, email \in Emails, password \in Passwords,
          confirm \in Passwords, salt \in Salts :
           \E newid \in NewIds(db, "users") :
               click_create_account(name, email, password, confirm, salt, newid)
    \/ click_back_to_login

SpecUI == Init /\ [][NextUI]_vars

\* The session is logged in only with the profile of a user, and the main
\* page is rendered only for a logged-in session.
LoggedInHasProfile ==
    /\ session.logged_in => session.user_info.user_id # NULL
    /\ session.page = "main" => session.logged_in
    /\ session.page = Dispatch(session.logged_in, session.show_register)

\* logged_in turns True only in a step that is a successful login.
LoggedInByLogin ==
    (~session.logged_in /\ session'.logged_in) => (last'.op = "login" /\ last'.ok)

MaxTx == 2

\* The connection a thread uses.
ConnOf(p) == IF proc[p].op.layer = "api" THEN p ELSE Cached

\* The store as the statements of connection c see it.
View(c) == IF pend.owner = c THEN pend.db ELSE db

\* The statement of operation op on the store d, up to its return or raise.
Statement(op, d, newid, n) ==
    CASE op.kind = "create" -> add_db(d, op.tbl, op.data, newid, n)
      [] op.kind = "update" -> update_db(d, op.tbl, op.id, op.data)
      [] op.kind = "delete" -> delete_db(d, op.tbl, op.id)
      [] OTHER ->
             LET r == SqlSelect(d, op.tbl, WhereOf(op.tbl, op.data))
             IN  Outcome(r.err, d, r.err = NoErr, r.err, NULL, 1)

\* The dashboard's functions that commit or roll back when they end: those
\* run by execute_db_operation, and the writes with a try block of their own.
\* The list functions with a try block of their own do neither.
EndsTransaction(op) == op.tbl \in CurTables \/ op.kind # "list"

\* conn.commit(): an aborted transaction is rolled back by the store.
Commit(c) ==
    /\ db' = IF pend.owner = c /\ conn[c].tx # "aborted" THEN pend.db ELSE db
    /\ pend' = IF pend.owner = c THEN NoPend ELSE pend

\* conn.rollback(), or the connection's end.
Rollback(c) ==
    /\ db' = db
    /\ pend' = IF pend.owner = c THEN NoPend ELSE pend

\* The place of a commit among the commits so far.
NextOrder ==
    1 + (CHOOSE n \in {proc[q].order : q \in Procs} :
             \A q \in Procs : proc[q].order <= n)

\* Writes that never wait for another connection's transaction.
Waits_Never(c, op) == FALSE

\* A statement of connection c that writes waits while another connection
\* holds uncommitted writes.
Waits(c, op) == op.kind # "list" /\ pend.owner \notin {"none", c}

\* The status code of an API response without an exception.
HttpOf(op, ok) ==
    IF ~ok THEN 404 ELSE IF op.kind = "create" THEN 201 ELSE 200

\* A thread takes a request (API) or a session calls a repository function
\* (dashboard).  The create routes check the required fields first.
Start(p, op) ==
    /\ now < MaxTx
    /\ proc[p].pc \in {"idle", "done"}
    /\ ~conn[p].open
    /\ \A q \in Procs \ {p} : proc[q].op.layer \in {"none", op.layer}
    /\ proc' = [proc EXCEPT ![p] =
           IF /\ op.layer = "api" /\ op.kind = "create"
              /\ \E c \in RequiredTruthy[op.tbl] :
                     c \notin DOMAIN op.data \/ Falsy(op.data[c])
           THEN [Proc("done", op) EXCEPT !.http = 400]
           ELSE Proc("connect", op)]
    /\ now' = now + 1
    /\ db0' = db
    /\ UNCHANGED <<db, last, session, url, conn, pend>>

\* get_db_connection().  API: raises ValueError without DATABASE_URL, which
\* the handler's except clause answers with 500.  Dashboard: st.stop() ends
\* the script; otherwise the cached connection is returned.
Connect(p) ==
    LET op == proc[p].op
    IN  /\ proc[p].pc = "connect"
        /\ IF op.layer = "api"
           THEN IF url
                THEN /\ conn' = [conn EXCEPT ![p] = [open |-> TRUE, tx |-> "idle"]]
                     /\ proc' = [proc EXCEPT ![p].pc = "execute",
                                             ![p].calls = Append(@, "connect")]
                ELSE /\ conn' = conn
                     /\ proc' = [proc EXCEPT ![p].pc = "done",
                                             ![p].raised = "ValueError",
                                             ![p].http = 500]
           ELSE IF url
                THEN /\ conn' = [conn EXCEPT ![Cached].open = TRUE]
                     /\ proc' = [proc EXCEPT ![p].pc = "execute"]
                ELSE /\ conn' = conn
                     /\ proc' = [proc EXCEPT ![p].pc = "stopped"]
        /\ UNCHANGED <<db, db0, now, last, session, url, pend>>

\* cur.execute(...) and the fetch.  A statement on an aborted transaction
\* raises InFailedSqlTransaction; a statement the store refuses aborts the
\* transaction; a write waits while another connection holds writes.
Execute(p, newid) ==
    LET op == proc[p].op
        c == ConnOf(p)
        out == Statement(op, View(c), newid, now)
    IN  /\ proc[p].pc = "execute"
        /\ IF conn[c].tx = "aborted"
           THEN /\ proc' = [proc EXCEPT ![p].pc = "finish",
                                        ![p].raised = "InFailedSqlTransaction",
                                        ![p].calls = Append(@, "execute")]
                /\ UNCHANGED <<conn, pend>>
           ELSE /\ ~Waits(c, op)
                /\ proc' = [proc EXCEPT ![p].pc = "finish",
                                        ![p].raised = out.raised,
                                        ![p].ok = out.ok,
                                        ![p].rid = out.rid,
                                        ![p].calls = Append(@, "execute")]
                /\ conn' = [conn EXCEPT ![c].tx =
                               IF out.raised = NoErr THEN "open"
                               ELSE IF out.stmts > 0 THEN "aborted" ELSE @]
                /\ pend' = IF out.raised = NoErr /\ op.kind # "list"
                           THEN [owner |-> c, db |-> out.db]
                           ELSE pend
        /\ UNCHANGED <<db, db0, now, last, session, url>>

\* The rest of an API handler: commit, close and the response; or the
\* except clause, which answers 500 and does nothing else.
FinishApi(p) ==
    LET op == proc[p].op
    IN  /\ proc[p].pc = "finish"
        /\ op.layer = "api"
        /\ IF proc[p].raised = NoErr
           THEN /\ Commit(p)
                /\ conn' = [conn EXCEPT ![p] = Closed]
                /\ proc' = [proc EXCEPT ![p].pc = "done",
                                        ![p].http = HttpOf(op, proc[p].ok),
                                        ![p].order = NextOrder,
                                        ![p].calls = @ \o <<"commit", "close">>]
           ELSE /\ proc' = [proc EXCEPT ![p].pc = "done",
                                        ![p].ok = FALSE,
                                        ![p].http = 500]
                /\ UNCHANGED <<db, conn, pend>>
        /\ UNCHANGED <<db0, now, last, session, url>>

\* The rest of a function of the dashboard: `with conn:` of
\* execute_db_operation or the function's own try block commits, or rolls
\* back and returns {"error": ...}; a list function with a try block of its
\* own returns the rows, or shows the error and returns [].
FinishUi(p) ==
    LET op == proc[p].op
    IN  /\ proc[p].pc = "finish"
        /\ op.layer = "ui"
        /\ IF EndsTransaction(op)
           THEN IF proc[p].raised = NoErr
                THEN /\ Commit(Cached)
                     /\ proc' = [proc EXCEPT ![p].pc = "done",
                                             ![p].order = NextOrder,
                                             ![p].calls = Append(@, "commit")]
                     /\ conn' = [conn EXCEPT ![Cached].tx = "idle"]
                ELSE /\ Rollback(Cached)
                     /\ proc' = [proc EXCEPT ![p].pc = "done",
                                             ![p].ok = FALSE,
                                             ![p].calls = Append(@, "rollback")]
                     /\ conn' = [conn EXCEPT ![Cached].tx = "idle"]
           ELSE /\ proc' = [proc EXCEPT ![p].pc = "done",
                                        ![p].ok = TRUE,
                                        ![p].swallowed = proc[p].raised # NoErr]
                /\ UNCHANGED <<db, conn, pend>>
        /\ UNCHANGED <<db0, now, last, session, url>>

\* The connection an API handler left open is closed when the interpreter
\* frees it, at some time after the handler returned.
Finalize(p) ==
    /\ proc[p].pc = "done"
    /\ conn[p].open
    /\ Rollback(p)
    /\ conn' = [conn EXCEPT ![p] = Closed]
    /\ UNCHANGED <<db0, now, last, session, url, proc>>

\* The operations: on daily logs (the dashboard's functions have a try block
\* of their own) and on suppliers (run by execute_db_operation).
TxOp(layer, kind, t, id, data) ==
    [layer |-> layer, kind |-> kind, tbl |-> t, id |-> id, data |-> data]

TxOps ==
    { TxOp(layer, x[1], x[2], x[3], x[4]) :
        layer \in {"api", "ui"},
        x \in { <<"create", "daily_logs", NULL, SampleFields("daily_logs", "c", "id1")>>,
                <<"create", "daily_logs", NULL, SampleFields("daily_logs", "c", "id3")>>,
                <<"update", "daily_logs", "id1", [notes |-> "x"]>>,
                <<"update", "daily_logs", "id1", [notes |-> "c", weather |-> "c"]>>,
                <<"delete", "daily_logs", "id2", EmptyBody>>,
                <<"list", "daily_logs", NULL, EmptyBody>>,
                <<"list", "daily_logs", NULL, [project_id |-> BadId]>>,
                <<"create", "suppliers", NULL, SampleFields("suppliers", "c", "id1")>>,
                <<"update", "suppliers", BadId, [name |-> "c"]>>,
                <<"list", "suppliers", NULL, EmptyBody>> } }

InitTx ==
    /\ db = Seed2
    /\ db0 = db
    /\ now = 0
    /\ last = NoRequest
    /\ session = NewSession
    /\ url \in BOOLEAN
    /\ Quiet

NextTx ==
    \/ \E p \in Procs, op \in TxOps : Start(p, op)
    \/ \E p \in Procs : Connect(p)
    \/ \E p \in Procs :
           \E newid \in IF proc[p].op.kind = "create"
                        THEN NewIds(View(ConnOf(p)), proc[p].op.tbl) ELSE {NULL} :
               Execute(p, newid)
    \/ \E p \in Procs : FinishApi(p)
    \/ \E p \in Procs : FinishUi(p)
    \/ \E p \in Procs : Finalize(p)

SpecTx == InitTx /\ [][NextTx]_vars

(***************************************************************************)
(* Properties of connections and transactions.                             *)
(***************************************************************************)
Done(p) == proc[p].pc = "done"
Writes(p) == proc[p].op.kind \in {"create", "update", "delete"}

\* The statement of p's operation was refused by the store.
StoreFailed(p) == Done(p) /\ proc[p].raised \notin {NoErr, "ValueError"}

Issued(p, call) == \E i \in 1..Len(proc[p].calls) : proc[p].calls[i] = call

\* C21: when a write (create, update or delete) fails inside the store, the
\* transaction is rolled back: the caller receives an error result, a
\* rollback was issued on the connection that ran it, and (no other operation
\* running) the store equals the store before the operation; for the API
\* handlers and for the dashboard's *_db functions.
C21_FailedWriteRolledBack ==
    \A p \in Procs :
        (StoreFailed(p) /\ Writes(p)) =>
            /\ ~proc[p].ok
            /\ Issued(p, "rollback")
            /\ (\A q \in Procs \ {p} : proc[q].pc \in {"idle", "done"}) => db = db0
            /\ pend.owner # ConnOf(p)

\* C23: every failure is surfaced: whenever the store reports an error during
\* an operation (a write or a list) the result is an error result (HTTP 500
\* on the API, an error value on the dashboard), never a success result or
\* one that cannot be told from a successful empty one.
C23_FailureSurfaced ==
    \A p \in Procs :
        StoreFailed(p) =>
            /\ ~proc[p].ok
            /\ ~proc[p].swallowed
            /\ proc[p].op.layer = "api" => proc[p].http = 500

\* C24: without DATABASE_URL the application never serves a request: no
\* handler runs and returns a response.
C24_NoUrlNoService ==
    ~url => \A p \in Procs : ~Done(p)

\* C27: every connection an API handler opened is closed before the handler
\* returns its response, on the success path and on every failure path; with
\* no request in flight no connection is open.
C27_ConnectionsClosed ==
    /\ \A p \in Procs : (Done(p) /\ proc[p].op.layer = "api") => ~conn[p].open
    /\ (\A p \in Procs : proc[p].pc \in {"idle", "done"}) =>
           \A p \in Procs : ~conn[p].open

\* C28: on the dashboard a failed operation, a list included, never leaves
\* the cached connection inside an aborted transaction when it returns, so
\* the next valid operation on the connection succeeds.
C28_ConnectionNotPoisoned ==
    /\ (/\ \E p \in Procs : Done(p) /\ proc[p].op.layer = "ui"
        /\ \A p \in Procs : proc[p].pc \in {"idle", "done"}) =>
           conn[Cached].tx # "aborted"
    /\ \A p \in Procs :
           (/\ Done(p) /\ proc[p].op.layer = "ui"
            /\ \A q \in Procs \ {p} : proc[q].pc = "idle") =>
               proc[p].raised # "InFailedSqlTransaction"

\* Row r with the columns of the update mapping data set to its values.
Overlay(r, data) ==
    [c \in DOMAIN r |-> IF c \in DOMAIN data THEN data[c] ELSE r[c]]

\* C22: a write that returns a success result has been committed before the
\* caller receives the result, under every interleaving: the record a create
\* reported is stored and the record an update reported carries a value
\* written by an update (on the dashboard, whose sessions share one
\* connection, another session's failure and rollback discards no write of an
\* operation that then reports success); and no create that reported failure
\* has its record stored by another operation's commit.
C22_SuccessIsCommitted ==
    \A p \in Procs :
        /\ (Done(p) /\ proc[p].ok /\ proc[p].op.kind = "create") =>
               Exists(db, proc[p].op.tbl, proc[p].rid)
        /\ (Done(p) /\ proc[p].ok /\ proc[p].op.kind = "update") =>
               \E q \in Procs :
                   /\ proc[q].op.kind = "update" /\ proc[q].op.id = proc[p].op.id
                   /\ \A c \in DOMAIN proc[q].op.data :
                          RowOf(db, proc[p].op.tbl, proc[p].op.id)[c] = proc[q].op.data[c]
        /\ (Done(p) /\ ~proc[p].ok /\ proc[p].op.kind = "create") =>
               \A r \in db[proc[p].op.tbl] \ Seed2[proc[p].op.tbl] :
                   \/ \E c \in DOMAIN proc[p].op.data : r[c] # proc[p].op.data[c]
                   \/ \E q \in Procs \ {p} : proc[q].ok /\ proc[q].rid = r.id

\* Both threads have answered an update of the same stored record through
\* the API (db0 is the store when the later of the two was taken up).
BothUpdated(p, q) ==
    /\ p # q /\ Done(p) /\ Done(q)
    /\ proc[p].op.layer = "api" /\ proc[q].op.layer = "api"
    /\ proc[p].op.kind = "update" /\ proc[q].op.kind = "update"
    /\ proc[p].op.tbl = proc[q].op.tbl /\ proc[p].op.id = proc[q].op.id
    /\ Exists(db0, proc[p].op.tbl, proc[p].op.id)

\* C25: two concurrent updates of one record follow last-write-wins at the
\* row level: both callers receive the record's id, the final value of every
\* column is the one written by the update that committed last among those
\* that named the column, and each update is applied atomically (no state
\* shows part of the columns of one update).
C25_LastWriteWins ==
    \A p, q \in Procs :
        LET t == proc[p].op.tbl
            id == proc[p].op.id
        IN  /\ (BothUpdated(p, q) /\ proc[p].order < proc[q].order) =>
                   /\ proc[p].ok /\ proc[p].rid = id /\ proc[p].http = 200
                   /\ proc[q].ok /\ proc[q].rid = id /\ proc[q].http = 200
                   /\ RowOf(db, t, id) =
                          Overlay(Overlay(RowOf(db0, t, id), proc[p].op.data),
                                  proc[q].op.data)
            /\ (/\ p # q /\ now = MaxTx
                /\ proc[p].op.layer = "api" /\ proc[q].op.layer = "api"
                /\ proc[p].op.kind = "update" /\ proc[q].op.kind = "update"
                /\ proc[p].op.id = proc[q].op.id /\ t = proc[q].op.tbl
                /\ Exists(db0, t, id)) =>
                   RowOf(db, t, id) \in
                       { RowOf(db0, t, id),
                         Overlay(RowOf(db0, t, id), proc[p].op.data),
                         Overlay(RowOf(db0, t, id), proc[q].op.data),
                         Overlay(Overlay(RowOf(db0, t, id), proc[p].op.data),
                                 proc[q].op.data),
                         Overlay(Overlay(RowOf(db0, t, id), proc[q].op.data),
                                 proc[p].op.data) }

\* Two different updates of one daily log, both answered: the one committed
\* first wrote a column that the one committed last wrote again.
C25_Witness ==
    \E p, q \in Procs :
        /\ BothUpdated(p, q)
        /\ 0 < proc[p].order /\ proc[p].order < proc[q].order
        /\ proc[p].op.data # proc[q].op.data
        /\ "weather" \in DOMAIN proc[p].op.data
        /\ RowOf(db, proc[p].op.tbl, proc[p].op.id).notes = "x"
        /\ RowOf(db, proc[p].op.tbl, proc[p].op.id).weather = "c"
        /\ RowOf(db0, proc[p].op.tbl, proc[p].op.id).weather # "c"

====
